---- MODULE Spec2Model ----
(***************************************************************************)
(* The expression parser of chapter2/parser.rs (nom 7 combinators) and the *)
(* Expression type of chapter2/language.rs.                                *)
(*                                                                         *)
(* A text (&str) is a sequence of one-character strings.  Every parser is  *)
(* an operator from a text to a result record, the model of nom's          *)
(* IResult<&str, T>:                                                       *)
(*   [kind |-> "Ok",      text |-> the remaining text, value |-> T]        *)
(*   [kind |-> "Error",   text |-> nom::error::Error.input, code |-> kind] *)
(*   [kind |-> "Failure", text |-> nom::error::Error.input, code |-> kind] *)
(* "Error" is nom's Err::Error (recoverable, the spec's NoMatch) and       *)
(* "Failure" is Err::Failure (fatal, the spec's Malformed).                *)
(***************************************************************************)
EXTENDS Integers, Sequences, FiniteSets, TLC

NoValue == [tag |-> "None"]

Ok(text, value) == [kind |-> "Ok", text |-> text, value |-> value, code |-> "None"]

Error(text, code) == [kind |-> "Error", text |-> text, value |-> NoValue, code |-> code]

Failure(text, code) == [kind |-> "Failure", text |-> text, value |-> NoValue, code |-> code]

\* A recursive call of expression that was not made on a strictly shorter text
\* than its caller's: the Rust recursion would not return from it.
Loop(text) == [kind |-> "Loop", text |-> text, value |-> NoValue, code |-> "None"]

Drop(text, n) == SubSeq(text, n + 1, Len(text))

StartsWith(text, prefix) ==
    /\ Len(text) >= Len(prefix)
    /\ \A i \in 1..Len(prefix) : text[i] = prefix[i]

(***************************************************************************)
(* The nom parsers the source imports.                                     *)
(***************************************************************************)
Whitespace == {" ", "\t", "\r", "\n"}

Digits == <<"0", "1", "2", "3", "4", "5", "6", "7", "8", "9">>

IsDigit(c) == \E i \in 1..10 : Digits[i] = c

DigitValue(c) == (CHOOSE i \in 1..10 : Digits[i] = c) - 1

\* bytes::complete::tag
tag(t, text) ==
    IF StartsWith(text, t) THEN Ok(Drop(text, Len(t)), t) ELSE Error(text, "Tag")

\* character::complete::char
char(c, text) ==
    IF Len(text) > 0 /\ text[1] = c THEN Ok(Drop(text, 1), c) ELSE Error(text, "Char")

RECURSIVE SpaceRun(_)
SpaceRun(text) ==
    IF Len(text) > 0 /\ text[1] \in Whitespace THEN 1 + SpaceRun(Drop(text, 1)) ELSE 0

\* character::complete::multispace0: any run of space, tab, CR, LF; never fails
multispace0(text) ==
    LET n == SpaceRun(text) IN Ok(Drop(text, n), SubSeq(text, 1, n))

RECURSIVE DigitRun(_)
DigitRun(text) ==
    IF Len(text) > 0 /\ IsDigit(text[1]) THEN 1 + DigitRun(Drop(text, 1)) ELSE 0

RECURSIVE Decimal(_)
Decimal(digits) ==
    IF Len(digits) = 0 THEN 0
    ELSE 10 * Decimal(SubSeq(digits, 1, Len(digits) - 1)) + DigitValue(digits[Len(digits)])

\* An f64 is the pair <<m, e>> for m * 10^e, with m not divisible by 10 (zero is
\* <<0, 0>>): two literals of one number, "8" and "8.0", give equal values.
RECURSIVE Float(_, _)
Float(m, e) ==
    IF m = 0 THEN <<0, 0>>
    ELSE IF m % 10 = 0 THEN Float(m \div 10, e + 1)
    ELSE <<m, e>>

SignLen(text) == IF Len(text) > 0 /\ text[1] \in {"+", "-"} THEN 1 ELSE 0

Sign(text) == IF Len(text) > 0 /\ text[1] = "-" THEN -1 ELSE 1

HasDot(text) == Len(text) > 0 /\ text[1] = "."

HasExp(text) == Len(text) > 0 /\ text[1] \in {"e", "E"}

\* The exponent of a literal whose mantissa is m * 10^e: `text` follows the 'e'
\* and its sign, `ed` is the number of its digits (nom: cut(digit1)).
double_exponent(m, e, esgn, text, ed) ==
    IF ed = 0 THEN Failure(text, "Digit")
    ELSE Ok(Drop(text, ed), Float(m, e + esgn * Decimal(SubSeq(text, 1, ed))))

\* `text` follows the mantissa m * 10^e.
double_tail(m, e, text) ==
    IF ~HasExp(text) THEN Ok(text, Float(m, e))
    ELSE double_exponent(m, e, Sign(Drop(text, 1)),
                         Drop(text, 1 + SignLen(Drop(text, 1))),
                         DigitRun(Drop(text, 1 + SignLen(Drop(text, 1)))))

\* `text` follows the sign, i is the number of its integer digits and f of its
\* fraction digits (after a '.').
double_mantissa(input, sgn, text, i, f) ==
    IF i = 0 /\ f = 0 THEN Error(input, "Float")
    ELSE IF ~HasDot(Drop(text, i))
    THEN double_tail(sgn * Decimal(SubSeq(text, 1, i)), 0, Drop(text, i))
    ELSE double_tail(sgn * Decimal(SubSeq(text, 1, i) \o SubSeq(text, i + 2, i + 1 + f)),
                     -f, Drop(text, i + 1 + f))

double_digits(input, sgn, text, i) ==
    double_mantissa(input, sgn, text, i,
                    IF HasDot(Drop(text, i)) THEN DigitRun(Drop(text, i + 1)) ELSE 0)

\* number::complete::double over the decimal literals: an optional sign, then
\* digits with an optional '.' and fraction, or '.' and a fraction, then an optional
\* exponent whose digits are required once 'e' is read.  The literals "nan", "inf"
\* and "infinity" are not modelled: no text of the model holds them.
double(text) ==
    double_digits(text, Sign(text), Drop(text, SignLen(text)),
                  DigitRun(Drop(text, SignLen(text))))

(***************************************************************************)
(* chapter2/parser.rs, the parsers that do not recurse.  A tuple of        *)
(* parsers followed by `?` returns the first result that is not Ok:        *)
(* Then(r, F) is F applied to r when r is Ok, and r otherwise.             *)
(***************************************************************************)
Then(r, F(_)) == IF r.kind # "Ok" THEN r ELSE F(r)

\* The text after any whitespace at its start.
Skip(text) == multispace0(text).text

comma_separator(text) ==
    Then(char(",", Skip(text)), LAMBDA r2 : Ok(Skip(r2.text), NoValue))

semicolon_separator(text) ==
    Then(char(";", Skip(text)), LAMBDA r2 : Ok(Skip(r2.text), NoValue))

float_pair(text) ==
    Then(double(text), LAMBDA f1 :
    Then(comma_separator(f1.text), LAMBDA r2 :
    Then(double(r2.text), LAMBDA f2 :
    Ok(f2.text, <<f1.value, f2.value>>))))

float_triple(text) ==
    Then(double(text), LAMBDA f1 :
    Then(comma_separator(f1.text), LAMBDA r2 :
    Then(double(r2.text), LAMBDA f2 :
    Then(comma_separator(f2.text), LAMBDA r4 :
    Then(double(r4.text), LAMBDA f3 :
    Ok(f3.text, <<f1.value, f2.value, f3.value>>))))))

parenthesized_float_pair(text) ==
    Then(char("(", text), LAMBDA r1 :
    Then(float_pair(Skip(r1.text)), LAMBDA pair :
    Then(char(")", Skip(pair.text)), LAMBDA r5 :
    Ok(r5.text, pair.value))))

parenthesized_float_triple(text) ==
    Then(char("(", text), LAMBDA r1 :
    Then(float_triple(Skip(r1.text)), LAMBDA triple :
    Then(char(")", Skip(triple.text)), LAMBDA r5 :
    Ok(r5.text, triple.value))))

\* chapter2/language.rs, enum Expression
Translation(u, v) == [tag |-> "Translation", u |-> u, v |-> v]

Rotation(u, v, theta) == [tag |-> "Rotation", u |-> u, v |-> v, theta |-> theta]

Chained(left, right) == [tag |-> "Chained", left |-> left, right |-> right]

EitherOr(left, right) == [tag |-> "EitherOr", left |-> left, right |-> right]

Iterate(body) == [tag |-> "Iterate", body |-> body]

KwTranslation == <<"t", "r", "a", "n", "s", "l", "a", "t", "i", "o", "n">>

KwRotation == <<"r", "o", "t", "a", "t", "i", "o", "n">>

KwIter == <<"i", "t", "e", "r">>

KwOr == <<"o", "r">>

translation_expression(text) ==
    Then(tag(KwTranslation, text), LAMBDA r1 :
    Then(parenthesized_float_pair(Skip(r1.text)), LAMBDA p :
    Ok(p.text, Translation(p.value[1], p.value[2]))))

\* A slip: rotation_expression pasted from translation_expression with the keyword
\* and the argument list left as they were.
rotation_expression_pasted(text) ==
    Then(tag(KwTranslation, text), LAMBDA r1 :
    Then(parenthesized_float_pair(Skip(r1.text)), LAMBDA p :
    Ok(p.text, Rotation(p.value[1], p.value[2], <<0, 0>>))))

rotation_expression(text) ==
    Then(tag(KwRotation, text), LAMBDA r1 :
    Then(parenthesized_float_triple(Skip(r1.text)), LAMBDA p :
    Ok(p.text, Rotation(p.value[1], p.value[2], p.value[3]))))

(***************************************************************************)
(* chapter2/parser.rs, the mutually recursive parsers.  `order` is the     *)
(* order in which alt tries the atom productions (the source's is          *)
(* AtomOrder).  `caller` is the length of the text of the function that    *)
(* makes the call of expression, one more than the text's own length for a *)
(* call from outside the parser.                                           *)
(***************************************************************************)
AtomOrder == <<"translation", "rotation", "iterate", "eitheror">>

RECURSIVE expression(_, _, _), iterate_expression(_, _), eitheror_leaf(_, _)
RECURSIVE eitheror_expression(_, _), alt(_, _, _)

\* A slip: the body is parsed from iterate_expression's own text, not from the
\* text after "iter(".
iterate_expression_no_progress(text, order) ==
    Then(tag(KwIter, text), LAMBDA r1 :
    Then(char("(", Skip(r1.text)), LAMBDA r3 :
    Then(expression(text, order, Len(text)), LAMBDA body :
    Then(char(")", Skip(body.text)), LAMBDA r7 :
    Ok(r7.text, Iterate(body.value))))))

iterate_expression(text, order) ==
    Then(tag(KwIter, text), LAMBDA r1 :
    Then(char("(", Skip(r1.text)), LAMBDA r3 :
    Then(expression(Skip(r3.text), order, Len(text)), LAMBDA body :
    Then(char(")", Skip(body.text)), LAMBDA r7 :
    Ok(r7.text, Iterate(body.value))))))

eitheror_leaf(text, order) ==
    Then(char("{", text), LAMBDA r1 :
    Then(expression(Skip(r1.text), order, Len(text)), LAMBDA expr :
    Then(char("}", Skip(expr.text)), LAMBDA r5 :
    Ok(r5.text, expr.value))))

\* A slip: the two leaves are stored in each other's place.
eitheror_expression_swapped(text, order) ==
    Then(eitheror_leaf(text, order), LAMBDA left :
    Then(tag(KwOr, Skip(left.text)), LAMBDA r3 :
    Then(eitheror_leaf(Skip(r3.text), order), LAMBDA right :
    Ok(right.text, EitherOr(right.value, left.value)))))

eitheror_expression(text, order) ==
    Then(eitheror_leaf(text, order), LAMBDA left :
    Then(tag(KwOr, Skip(left.text)), LAMBDA r3 :
    Then(eitheror_leaf(Skip(r3.text), order), LAMBDA right :
    Ok(right.text, EitherOr(left.value, right.value)))))

\* One atom production, by name.
production(name, text, order) ==
    CASE name = "translation" -> translation_expression(text)
      [] name = "rotation"    -> rotation_expression(text)
      [] name = "iterate"     -> iterate_expression(text, order)
      [] name = "eitheror"    -> eitheror_expression(text, order)

\* A slip: alt goes on to its next parser after Err::Failure too.
alt_rest_backtracks(res, parsers, text, order) ==
    IF res.kind \in {"Error", "Failure"} /\ Len(parsers) > 1
    THEN alt(Tail(parsers), text, order)
    ELSE res

\* alt after its first parser returned res.
alt_rest(res, parsers, text, order) ==
    IF res.kind = "Error" /\ Len(parsers) > 1 THEN alt(Tail(parsers), text, order)
    ELSE res

\* branch::alt: the first result that is not Err::Error; when every parser
\* returns Err::Error, the error of the last one (nom::error::Error's `or` and
\* `append` both keep the later error).
alt(parsers, text, order) ==
    alt_rest(production(Head(parsers), text, order), parsers, text, order)

\* A slip: the error is handed on as it came, Err::Error, not made Err::Failure.
end_of_expression_recoverable(remaining_text, expr, inner_error) ==
    IF \/ Len(inner_error.text) = 0
       \/ StartsWith(inner_error.text, <<")">>)
       \/ StartsWith(inner_error.text, <<"}">>)
    THEN Ok(remaining_text, expr)
    ELSE Error(inner_error.text, inner_error.code)

\* A slip: '}' is not among the terminators.
end_of_expression_no_brace(remaining_text, expr, inner_error) ==
    IF \/ Len(inner_error.text) = 0
       \/ StartsWith(inner_error.text, <<")">>)
    THEN Ok(remaining_text, expr)
    ELSE Failure(inner_error.text, inner_error.code)

\* A slip: the text returned is the error's (past the whitespace), not
\* remaining_text.
end_of_expression_skips(remaining_text, expr, inner_error) ==
    IF \/ Len(inner_error.text) = 0
       \/ StartsWith(inner_error.text, <<")">>)
       \/ StartsWith(inner_error.text, <<"}">>)
    THEN Ok(inner_error.text, expr)
    ELSE Failure(inner_error.text, inner_error.code)

\* The arm of the match for semicolon_separator's Err::Error
\* (parser.rs, lines 77 to 83).
end_of_expression(remaining_text, expr, inner_error) ==
    IF \/ Len(inner_error.text) = 0
       \/ StartsWith(inner_error.text, <<")">>)
       \/ StartsWith(inner_error.text, <<"}">>)
    THEN Ok(remaining_text, expr)
    ELSE Failure(inner_error.text, inner_error.code)

\* A slip: the operands of Chained are in each other's place.
chain_swapped(text, order, remaining_text, expr, semicolon) ==
    CASE semicolon.kind = "Ok" ->
            Then(expression(semicolon.text, order, Len(text)), LAMBDA more :
            Ok(more.text, Chained(more.value, expr)))
      [] semicolon.kind = "Error" ->
            end_of_expression(remaining_text, expr, semicolon)
      [] OTHER -> semicolon

\* The match on semicolon_separator's result (parser.rs, lines 71 to 85).
chain(text, order, remaining_text, expr, semicolon) ==
    CASE semicolon.kind = "Ok" ->
            Then(expression(semicolon.text, order, Len(text)), LAMBDA more :
            Ok(more.text, Chained(expr, more.value)))
      [] semicolon.kind = "Error" ->
            end_of_expression(remaining_text, expr, semicolon)
      [] OTHER -> semicolon

expression(text, order, caller) ==
    IF Len(text) >= caller THEN Loop(text) ELSE
    Then(alt(order, text, order), LAMBDA atom :
    chain(text, order, atom.text, atom.value, semicolon_separator(atom.text)))

\* A call of expression from outside the parser (the spec's parse_expression).
parse_expression(text) == expression(text, AtomOrder, Len(text) + 1)

\* A call of eitheror_leaf from outside the parser.
parse_leaf(text) == eitheror_leaf(text, AtomOrder)

(***************************************************************************)
(* The callers.  A program text is built one step at a time and parsed     *)
(* after every step: from a translation or rotation atom, by the grammar's *)
(* productions (iter(..), ..;.., {..} or {..}, {..}), by whitespace before *)
(* its first and after its last token, and by stray text before or after   *)
(* it.                                                                     *)
(***************************************************************************)
MaxSteps == 3

\* The steps of the shorter runs, SpecShort, under which the formulas that parse
\* the text many times over are checked.
MaxShortSteps == 2

WsRuns == {<<>>, <<"\n", " ">>}

LeadRun == <<" ", "\t">>

TrailRun == <<"\r", "\n">>

Atoms == {"translation", "rotation"}

\* "translation(1,2)" and "rotation(0.5,8.0,-3)", with the run w at every
\* place inside the atom where the grammar allows whitespace.
AtomText(a, w) ==
    IF a = "translation"
    THEN KwTranslation \o w \o <<"(">> \o w \o <<"1">> \o w \o <<",">> \o w
            \o <<"2">> \o w \o <<")">>
    ELSE KwRotation \o w \o <<"(">> \o w \o <<"0", ".", "5">> \o w \o <<",">> \o w
            \o <<"8", ".", "0">> \o w \o <<",">> \o w \o <<"-", "3">> \o w \o <<")">>

AtomTree(a) ==
    IF a = "translation" THEN Translation(<<1, 0>>, <<2, 0>>)
    ELSE Rotation(<<5, -1>>, <<8, 0>>, <<-3, 0>>)

\* Stray text after a program, and an opened group before it.
Strays == {<<"g">>, <<";">>, <<")">>, <<"}">>}

Openers == {KwIter \o <<"(">>, <<"{">>}

VARIABLES
    text,    \* the program text handed to the parser
    form,    \* "empty", or what the text is: an "expression" or a "leaf" of the
             \* grammar (with whitespace between its tokens), or "raw" text
    ast,     \* the tree of the grammar derivation (form "expression" or "leaf")
    lead,    \* whitespace stands before the first token
    trail,   \* whitespace stands after the last token
    ws,      \* the whitespace run the productions put between their tokens
    entry,   \* the parser called: "expression" or "eitheror_leaf"
    result,  \* what the call returned
    last,    \* the last step: text' = last.pre \o text \o last.post
    budget   \* the steps left

vars == <<text, form, ast, lead, trail, ws, entry, result, last, budget>>

Start(n) ==
    /\ text = <<>>
    /\ form = "empty"
    /\ ast = NoValue
    /\ lead = FALSE
    /\ trail = FALSE
    /\ ws = <<>>
    /\ entry = "expression"
    /\ result = parse_expression(<<>>)
    /\ last = [op |-> "Init", pre |-> <<>>, post |-> <<>>]
    /\ budget = n

Init == Start(MaxSteps)

InitShort == Start(MaxShortSteps)

\* One step of the text, and the call of expression on the new text.
Build(op, pre, post, newForm, newAst, newLead, newTrail) ==
    /\ entry = "expression"
    /\ budget > 0
    /\ text' = pre \o text \o post
    /\ form' = newForm
    /\ ast' = newAst
    /\ lead' = newLead
    /\ trail' = newTrail
    /\ entry' = "expression"
    /\ result' = parse_expression(text')
    /\ last' = [op |-> op, pre |-> pre, post |-> post]
    /\ budget' = budget - 1
    /\ UNCHANGED ws

Grammar(tree) == IF form = "expression" THEN tree ELSE NoValue

GrammarForm == IF form = "expression" THEN "expression" ELSE "raw"

Leaf ==
    \E a \in Atoms, w \in WsRuns :
        /\ form = "empty"
        /\ text' = AtomText(a, w)
        /\ form' = "expression"
        /\ ast' = AtomTree(a)
        /\ ws' = w
        /\ result' = parse_expression(text')
        /\ last' = [op |-> "Leaf", pre |-> <<>>, post |-> text']
        /\ UNCHANGED <<lead, trail, entry, budget>>

\* iter ( text )
WrapIter ==
    /\ form # "empty"
    /\ Build("WrapIter", KwIter \o ws \o <<"(">>, <<")">>,
          GrammarForm, Grammar(Iterate(ast)), FALSE, FALSE)

RECURSIVE AppendChain(_, _)
\* The tree of "t; r" under expression := atom (';' expression)?: the atoms of
\* t's chain, then r, nested to the right.
AppendChain(t, r) ==
    IF t.tag = "Chained" THEN Chained(t.left, AppendChain(t.right, r))
    ELSE Chained(t, r)

\* text ; rotation
ChainRight ==
    /\ form # "empty"
    /\ Build("ChainRight", <<>>, <<";">> \o ws \o AtomText("rotation", ws),
          GrammarForm, Grammar(AppendChain(ast, AtomTree("rotation"))), lead, FALSE)

\* translation ; text
ChainLeft ==
    /\ form # "empty"
    /\ Build("ChainLeft", AtomText("translation", ws) \o ws \o <<";">>, <<>>,
          GrammarForm, Grammar(Chained(AtomTree("translation"), ast)), FALSE, trail)

\* { text } or { text }
EitherSelf ==
    /\ form # "empty"
    /\ Build("EitherSelf", <<"{">>, <<"}">> \o ws \o KwOr \o ws \o <<"{">> \o text \o <<"}">>,
          GrammarForm, Grammar(EitherOr(ast, ast)), FALSE, FALSE)

\* { translation } or { text }
EitherLeft ==
    /\ form # "empty"
    /\ Build("EitherLeft",
          <<"{">> \o ws \o AtomText("translation", ws) \o ws \o <<"}">> \o ws \o KwOr \o ws \o <<"{">>,
          <<"}">>,
          GrammarForm, Grammar(EitherOr(AtomTree("translation"), ast)), FALSE, FALSE)

\* { text }: a leaf of an either-or, not an expression
WrapLeaf ==
    /\ form # "empty"
    /\ Build("WrapLeaf", <<"{">>, <<"}">>,
          IF form = "expression" THEN "leaf" ELSE "raw", Grammar(ast), FALSE, FALSE)

LeadWs ==
    /\ form # "empty"
    /\ ~lead
    /\ Build("LeadWs", LeadRun, <<>>, form, ast, TRUE, trail)

TrailWs ==
    /\ form # "empty"
    /\ ~trail
    /\ Build("TrailWs", <<>>, TrailRun, form, ast, lead, TRUE)

AppendStray ==
    \E c \in Strays :
        /\ form # "empty"
        /\ Build("AppendStray", <<>>, c, "raw", NoValue, lead, FALSE)

PrependOpener ==
    \E c \in Openers :
        /\ form # "empty"
        /\ Build("PrependOpener", c, <<>>, "raw", NoValue, FALSE, trail)

\* The either-or leaf parser called on the text alone.
CallLeaf ==
    /\ form = "leaf"
    /\ entry = "expression"
    /\ entry' = "eitheror_leaf"
    /\ result' = parse_leaf(text)
    /\ UNCHANGED <<text, form, ast, lead, trail, ws, last, budget>>

Next ==
    \/ Leaf
    \/ WrapIter
    \/ ChainRight
    \/ ChainLeft
    \/ EitherSelf
    \/ EitherLeft
    \/ WrapLeaf
    \/ LeadWs
    \/ TrailWs
    \/ AppendStray
    \/ PrependOpener
    \/ CallLeaf

Spec == Init /\ [][Next]_vars

SpecShort == InitShort /\ [][Next]_vars

(***************************************************************************)
(* The claims.                                                             *)
(***************************************************************************)
Suffixes(t) == {Drop(t, n) : n \in 0..Len(t)}

IsSuffix(t, of) == Len(t) <= Len(of) /\ t = Drop(of, Len(of) - Len(t))

\* The atom at the start of s, as expression's alt returns it.
Atom(s) == alt(AtomOrder, s, AtomOrder)

Terminated(t) == Len(t) = 0 \/ t[1] \in {")", "}"}

\* The result `atom` of alt is an atom followed, past whitespace, by text that
\* is neither ';' nor a terminator.
ThenGarbage(atom) ==
    /\ atom.kind = "Ok"
    /\ ~Terminated(Skip(atom.text))
    /\ Skip(atom.text)[1] # ";"

\* r is a parse of a whole text: Ok, with nothing but whitespace left.
Complete(r) == r.kind = "Ok" /\ Skip(r.text) = <<>>

\* The Err::Failure of the chaining check after `atom`.
Malformed(atom) == Failure(Skip(atom.text), "Char")

\* C1: wherever an atom has been parsed (at the start of the text or of any of
\* its suffixes, the texts of the nested calls) and the text after it, past
\* whitespace, is not empty and starts with none of ';', ')' and '}', expression
\* returns Err::Failure whose input is the text from that character on.
C1_GarbageAfterAtomIsMalformed ==
    /\ (entry = "expression" /\ ThenGarbage(Atom(text)))
          => result = Malformed(Atom(text))
    /\ \A s \in Suffixes(text) :
          ThenGarbage(Atom(s)) => parse_expression(s) = Malformed(Atom(s))

\* C1's case: "translation(1,2) \r\ng" and the like, the garbage after whitespace.
C1_Witness ==
    /\ entry = "expression"
    /\ last.op = "AppendStray"
    /\ ThenGarbage(Atom(text))
    /\ Skip(Atom(text).text) # Atom(text).text
    /\ result.kind = "Failure"

EnclosingSteps ==
    {"WrapIter", "ChainLeft", "EitherSelf", "EitherLeft", "WrapLeaf", "PrependOpener"}

\* C2: when expression fails with Err::Failure on a text, it fails with the same
\* Err::Failure (the same input, up to the text added after it) on that text
\* as an iter body, as the left or the right leaf of an either-or, on the right
\* of a ';' and after an opened group: nothing turns it into Ok or Err::Error.
C2_FailurePropagatesUnchanged ==
    [][(/\ entry = "expression"
        /\ entry' = "expression"
        /\ result.kind = "Failure"
        /\ last'.op \in EnclosingSteps)
       => result' = Failure(result.text \o last'.post, result.code)]_vars

\* C2's case: the failure was raised inside the enclosed text.
C2_Witness ==
    /\ entry = "expression"
    /\ last.op \in {"WrapIter", "EitherSelf", "EitherLeft", "ChainLeft"}
    /\ result.kind = "Failure"
    /\ Len(result.text) > Len(last.post)
    /\ budget < MaxSteps - 1

IterExample == KwIter \o <<"(">> \o AtomText("translation", <<>>) \o <<")">>

LeafExample == <<"{">> \o AtomText("translation", <<>>) \o <<"}">>

\* C3 as amended: expression succeeds on "iter(translation(1,2))" and
\* eitheror_leaf on "{translation(1,2)}", each with the atom's tree inside and
\* nothing left; expression itself returns Err::Error on "{translation(1,2)}".
C3_TerminatorsAccepted ==
    /\ (text = IterExample /\ entry = "expression")
          => result = Ok(<<>>, Iterate(AtomTree("translation")))
    /\ (text = LeafExample /\ entry = "eitheror_leaf")
          => result = Ok(<<>>, AtomTree("translation"))
    /\ (text = LeafExample /\ entry = "expression")
          => result.kind = "Error"

C3_Witness ==
    /\ text = LeafExample
    /\ entry = "eitheror_leaf"
    /\ result.kind = "Ok"

\* C3 as claimed: expression succeeds on both texts.
C3_Original ==
    (text \in {IterExample, LeafExample} /\ entry = "expression")
        => result.kind = "Ok"

\* C4 as claimed: a program of the grammar with whitespace put around its tokens,
\* before the first and after the last among them, is accepted by expression and
\* gives the tree of the program.
C4_WhitespaceInvariance ==
    (form = "expression" /\ entry = "expression")
        => (result.kind = "Ok" /\ result.value = ast)

\* C5: chains nest to the right.  When a text parses wholly to the tree T, the
\* text "translation(1,2); text" parses to Chained(translation, T), and the text
\* "text; rotation(..)" to the atoms of T's chain with the rotation at the far
\* right end: a group is one atom, its inner chain closed by its ')' or '}'.
C5_ChainsNestRight ==
    [][(/\ entry' = "expression"
        /\ Complete(result)
        /\ last'.op \in {"ChainLeft", "ChainRight"})
       => IF last'.op = "ChainLeft"
          THEN result' = Ok(result.text, Chained(AtomTree("translation"), result.value))
          ELSE result' = Ok(<<>>, AppendChain(result.value, AtomTree("rotation")))]_vars

\* C5's case: "iter(a; b); c" gives Chained(Iterate(Chained(a, b)), c).
C5_Witness ==
    /\ entry = "expression"
    /\ last.op = "ChainRight"
    /\ result.kind = "Ok"
    /\ result.value.tag = "Chained"
    /\ result.value.left.tag = "Iterate"
    /\ result.value.left.body.tag = "Chained"
    /\ result.value.right = AtomTree("rotation")

\* C6: every text derived from the grammar (whitespace between its tokens and
\* after the last, none before the first) parses to the tree of its derivation:
\* Iterate(T) for iter(E), EitherOr(T1, T2) for {E1} or {E2}, and nothing but
\* the whitespace after the last token is left.
C6_NestingIsCompositional ==
    (form = "expression" /\ entry = "expression" /\ ~lead)
        => /\ result.kind = "Ok"
           /\ result.value = ast
           /\ Skip(result.text) = <<>>
           /\ ~trail => result.text = <<>>

\* C6's case: an iter whose body is an either-or whose branches are chains.
C6_Witness ==
    /\ form = "expression"
    /\ entry = "expression"
    /\ result.kind = "Ok"
    /\ result.value.tag = "Iterate"
    /\ result.value.body.tag = "EitherOr"
    /\ result.value.body.left.tag = "Chained"
    /\ result.value.body.right.tag = "Chained"

\* C7 as claimed: when the text starts with an atom and what follows is neither
\* a terminator nor a ';' with a whole expression after it, expression returns
\* Err::Failure (never Err::Error, never the atom alone).
C7_BrokenChainIsMalformed ==
    (/\ entry = "expression"
     /\ Atom(text).kind = "Ok"
     /\ ~Terminated(Skip(Atom(text).text))
     /\ result.kind # "Ok")
        => result.kind = "Failure"

\* C8: no call of expression is made on a text that is not strictly shorter
\* than its caller's, so every parse returns: Ok, Err::Error or Err::Failure, with
\* a suffix of the text.
C8_ParseTerminates ==
    /\ result.kind \in {"Ok", "Error", "Failure"}
    /\ IsSuffix(result.text, text)

\* C8's case: the calls from a chain, an iter body and both leaves have returned.
C8_Witness ==
    /\ entry = "expression"
    /\ result.kind = "Ok"
    /\ result.value.tag = "Chained"
    /\ result.value.right.tag = "Iterate"
    /\ result.value.right.body.tag = "EitherOr"

Orders ==
    {o \in [1..4 -> {"translation", "rotation", "iterate", "eitheror"}] :
        \A i, j \in 1..4 : i # j => o[i] # o[j]}

\* What a caller sees of a result: the tree and the text left, or the error kind.
Outcome(r) == IF r.kind = "Ok" THEN <<"Ok", r.value, r.text>> ELSE <<r.kind>>

\* C9: at most one of the four atom productions returns anything but Err::Error
\* on a text, and expression with the productions tried in any order returns
\* the outcome it returns with the source's order.
C9_OrderDoesNotMatter ==
    entry = "expression" =>
        /\ Cardinality({i \in 1..4 : production(AtomOrder[i], text, AtomOrder).kind # "Error"}) <= 1
        /\ \A o \in Orders : Outcome(expression(text, o, Len(text) + 1)) = Outcome(result)

\* C9's case: a text on which another order returns another Err::Error (another
\* input), so that the orders are told apart, with the same outcome.
C9_Witness ==
    /\ entry = "expression"
    /\ result.kind = "Error"
    /\ \E o \in Orders : expression(text, o, Len(text) + 1).text # result.text

\* What C10 says of the result r of expression on s.
RemainderOk(s, r) ==
    r.kind = "Ok" =>
        /\ Len(r.text) < Len(s)
        /\ IsSuffix(r.text, s)
        /\ Terminated(Skip(r.text))
        /\ s[Len(s) - Len(r.text)] \notin Whitespace

\* C10: every successful call of expression, on the text or on a suffix of it
\* (the nested calls), leaves a proper suffix of its text that, past whitespace,
\* is empty or starts with ')' or '}', and the last character it took is not
\* whitespace.
C10_RemainderInvariant ==
    /\ entry = "expression" => RemainderOk(text, result)
    /\ \A s \in Suffixes(text) : RemainderOk(s, parse_expression(s))

\* C10's case: "translation(1,2)}g", accepted with "}g" left.
C10_Witness ==
    /\ entry = "expression"
    /\ last.op = "AppendStray"
    /\ result.kind = "Ok"
    /\ Len(result.text) >= 2
    /\ result.text[1] = "}"
====
